---- MODULE Spec2Model ----
(***************************************************************************)
(* Model of github.com/SIM-MBKM/filestorage, package storage:              *)
(*   - MemoryCache        (pkg/storage/memory_cache.go): expiring          *)
(*                         key/value store and its janitor goroutine;      *)
(*   - CacheTokenManager  (pkg/storage/token_manager.go): client-          *)
(*                         credentials tokens kept in the cache;           *)
(*   - FileStorageManager (pkg/storage/file_storage.go): the retry loop    *)
(*                         of the REST operations.                         *)
(*                                                                         *)
(* Time is counted in ticks of 150 seconds, so the janitor's 5 minutes are *)
(* 2 ticks.  Cache values and tokens are strings in the code; here they    *)
(* are naturals, 0 standing for the empty string "".                       *)
(***************************************************************************)
EXTENDS Integers, Sequences, FiniteSets, TLC

\* ------------------------------------------------------------------ bounds
MaxTime == 5            \* the clock stops here when only the cache is exercised
MaxCallTime == 3        \* the clock stops here when calls run
MaxTokens == 3          \* tokens the authorization server can issue
MaxUploads == 2         \* file ids the uploads can produce

\* ------------------------------------------------------- program constants
SweepInterval == 2      \* time.NewTicker(5 * time.Minute)
DefaultMaxRetry == 3    \* NewFileStorageManager: maxRetry: 3
ServerError == 500      \* resp.StatusCode >= 500
DefaultLinkExpiry == 2  \* time.Now().Add(30 * time.Minute), in ticks

VARIABLES
    now,          \* time.Now()
    items,        \* MemoryCache.items: a map, key -> Item
    nextTick,     \* when the janitor's ticker fires next
    tickPending,  \* a tick is waiting in ticker.C (a channel of capacity 1)
    jpc,          \* janitor: "wait" (blocked on ticker.C) or "sweep" (in deleteExpired)
    jnow,         \* deleteExpired's local `now`
    setInfo,      \* history: per user key, the last Set (value, time, ttl), cleared by Delete
    ev,           \* history: the Get, Has or Delete the last step performed, and what it returned or met
    maxRetry,     \* FileStorageManager.maxRetry
    issued,       \* authorization server: how many tokens it has issued
    pc,           \* per caller: where its call stands
    op,           \* per caller: the operation it called
    ctx,          \* per caller: who called GenerateToken ("get", "forced", "direct")
    attempts,     \* per caller: the loop's `attempts`
    tok,          \* per caller: the loop's `token`
    aresp,        \* per caller: GenerateToken's decoded tokenResp
    result,       \* per caller: what the call returned
    log,          \* history, per call: the status of each HTTP attempt (0: transport failure)
    forced,       \* history, per call: GenerateToken calls made by the retry branch
    authReqs,     \* history, per call: requests sent to the authorization server
    prevGT,       \* history, per caller: the token its last generating GetToken stored, when, for how long
    look,         \* history, per call: what GetToken's lookup met in the cache
    body,         \* history, per call: the body of the response that ended the loop
    payload,      \* per call: the payload fields set in the FileResponse it returns
    regen,        \* history, per call: the retry branch's GenerateToken returned an error, until the loop goes on
    mu,           \* MemoryCache.mu, a sync.RWMutex: is it write-locked, and by how many readers is it held
    thr,          \* per goroutine calling the cache: its call, where it stands, and what it met and got
    jsnap,        \* history: the map as the janitor found it when it took the lock
    objects,      \* the object stores: per backend, file id -> what is stored under it
    disk,         \* the local paths at which a file exists
    uploads,      \* how many file ids uuid.New() has produced
    so,           \* the running object-store operation: its arguments, its next step, its history
    sret          \* what the object-store operation returned

cacheVars == <<items, nextTick, tickPending, jpc, jnow, setInfo>>
lockVars == <<mu, thr, jsnap>>
storeVars == <<objects, disk, uploads, so, sret>>
extVars == <<lockVars, storeVars>>
callVars == <<maxRetry, issued, pc, op, ctx, attempts, tok, aresp, result, log, forced,
              authReqs, prevGT, look, body, payload, regen>>

\* ------------------------------------------------------------- MemoryCache
tokenKey == "access_token"
UserKeys == {"k1", "k2"}
Keys == UserKeys \cup {tokenKey}
UserValues == {1, 2}
Expiries == {0, 1, 2}       \* the `expiry` arguments tried, in ticks

NoSet == [v |-> 0, t |-> 0, ttl |-> 0, set |-> FALSE]
NoLook == [live |-> FALSE, val |-> 0, inWindow |-> FALSE]
NoEv == [op |-> "none", key |-> "", val |-> 0, found |-> FALSE]

\* a faulty variant: the expiry is not added to the current time
Expiration_NotFromNow(expiry, t) == IF expiry > 0 THEN expiry ELSE 0

\* Set: `if expiry > 0 { expiration = time.Now().Add(expiry).UnixNano() }`
Expiration(expiry, t) == IF expiry > 0 THEN t + expiry ELSE 0

NewItem(value, expiry, t) == [Value |-> value, Expiration |-> Expiration(expiry, t)]

\* a faulty variant: an expiration of 0 is not taken as "never"
IsExpired_ZeroExpires(item, t) == t > item.Expiration

\* `item.Expiration > 0 && time.Now().UnixNano() > item.Expiration`
IsExpired(item, t) == item.Expiration > 0 /\ t > item.Expiration

\* a faulty variant: a Set on a stored key keeps the entry's expiration
MapSet_KeepsExpiration(m, k, item) ==
    [x \in (DOMAIN m) \cup {k} |->
        IF x # k THEN m[x]
        ELSE IF k \in DOMAIN m THEN [item EXCEPT !.Expiration = m[k].Expiration]
        ELSE item]

\* c.items[key] = Item{...}
MapSet(m, k, item) == [x \in (DOMAIN m) \cup {k} |-> IF x = k THEN item ELSE m[x]]

\* delete(c.items, key)
MapDelete(m, k) == [x \in (DOMAIN m) \ {k} |-> m[x]]

\* MemoryCache.Get
CacheGet(m, k, t) ==
    IF k \notin DOMAIN m THEN [value |-> 0, found |-> FALSE]
    ELSE IF IsExpired(m[k], t) THEN [value |-> 0, found |-> FALSE]
    ELSE [value |-> m[k].Value, found |-> TRUE]

\* MemoryCache.Has
CacheHas(m, k, t) ==
    IF k \notin DOMAIN m THEN FALSE
    ELSE IF IsExpired(m[k], t) THEN FALSE
    ELSE TRUE

\* a faulty variant: a read removes the expired entry it meets
CacheAfterRead_Evicts(m, k, t) ==
    IF k \in DOMAIN m /\ IsExpired(m[k], t) THEN MapDelete(m, k) ELSE m

\* what Get leaves in the map (nothing is removed on a read)
CacheAfterRead(m, k, t) == m

\* a faulty variant: the sweep removes every entry that has an expiration
DeleteExpired_Early(m, t) == [x \in {k \in DOMAIN m : m[k].Expiration = 0} |-> m[x]]

\* a faulty variant: the sweep's comparison is turned around
DeleteExpired_Inverted(m, t) ==
    [x \in {k \in DOMAIN m : ~(m[k].Expiration > 0 /\ t < m[k].Expiration)} |-> m[x]]

\* the loop of deleteExpired, with its local `now`
DeleteExpired(m, t) == [x \in {k \in DOMAIN m : ~IsExpired(m[k], t)} |-> m[x]]

\* ---- the cache's callers other than the token manager
Set(k, v, expiry) ==
    /\ items' = MapSet(items, k, NewItem(v, expiry, now))
    /\ setInfo' = [setInfo EXCEPT ![k] = [v |-> v, t |-> now, ttl |-> expiry, set |-> TRUE]]
    /\ ev' = NoEv
    /\ UNCHANGED <<now, extVars, nextTick, tickPending, jpc, jnow, callVars>>

Get(k) ==
    /\ items' = CacheAfterRead(items, k, now)
    /\ ev' = [op |-> "Get", key |-> k, val |-> CacheGet(items, k, now).value,
              found |-> CacheGet(items, k, now).found]
    /\ UNCHANGED <<now, extVars, nextTick, tickPending, jpc, jnow, setInfo, callVars>>

Has(k) ==
    /\ items' = CacheAfterRead(items, k, now)
    /\ ev' = [op |-> "Has", key |-> k, val |-> 0, found |-> CacheHas(items, k, now)]
    /\ UNCHANGED <<now, extVars, nextTick, tickPending, jpc, jnow, setInfo, callVars>>

Delete(k) ==
    /\ items' = MapDelete(items, k)
    /\ setInfo' = [setInfo EXCEPT ![k] = NoSet]
    /\ ev' = [op |-> "Delete", key |-> k, val |-> 0, found |-> k \in DOMAIN items]
    /\ UNCHANGED <<now, extVars, nextTick, tickPending, jpc, jnow, callVars>>

\* ---- the janitor goroutine and its ticker
\* The runtime's ticker: at each multiple of the interval it puts a tick into
\* ticker.C, dropping it when the previous one was not taken yet.
TickerFire ==
    /\ now >= nextTick
    /\ tickPending' = TRUE
    /\ nextTick' = nextTick + SweepInterval
    /\ ev' = NoEv
    /\ UNCHANGED <<now, extVars, items, jpc, jnow, setInfo, callVars>>

\* `<-ticker.C`, then deleteExpired's `now := time.Now().UnixNano()`
JanitorWake ==
    /\ jpc = "wait"
    /\ tickPending
    /\ tickPending' = FALSE
    /\ jpc' = "sweep"
    /\ jnow' = now
    /\ ev' = NoEv
    /\ UNCHANGED <<now, extVars, items, nextTick, setInfo, callVars>>

\* deleteExpired from c.mu.Lock() to the deferred Unlock
JanitorSweep ==
    /\ jpc = "sweep"
    /\ items' = DeleteExpired(items, jnow)
    /\ jpc' = "wait"
    /\ jnow' = 0
    /\ ev' = NoEv
    /\ UNCHANGED <<now, extVars, nextTick, tickPending, setInfo, callVars>>

\* ---- the clock.  A tick that is due is delivered before time moves on.
Advance(limit) ==
    /\ now < limit
    /\ now < nextTick
    /\ now' = now + 1
    /\ ev' = NoEv
    /\ UNCHANGED <<cacheVars, callVars, extVars>>

\* ---- the cache's operations with their locking (c.mu)
Threads == {"t1", "t2"}
LockKeys == {"k1"}
LockExpiries == {0, 1}

NoCall == [pc |-> "idle", op |-> "none", key |-> "", val |-> 0, expiry |-> 0,
           snap |-> << >>, at |-> 0, res |-> [value |-> 0, found |-> FALSE]]

\* a faulty variant: Set takes the read lock
LockMode_SetReads(o) == IF o \in {"Get", "Has", "Set"} THEN "read" ELSE "write"

\* which side of c.mu the operation takes: RLock in Get and Has, Lock in Set,
\* Delete and deleteExpired
LockMode(o) == IF o \in {"Get", "Has"} THEN "read" ELSE "write"

\* sync.RWMutex: Lock waits for the writer and the readers to leave, RLock for the writer
CanLock(mode, m) == IF mode = "write" THEN ~m.w /\ m.r = 0 ELSE ~m.w

Locked(mode, m) == IF mode = "write" THEN [m EXCEPT !.w = TRUE] ELSE [m EXCEPT !.r = @ + 1]

Unlocked(mode, m) == IF mode = "write" THEN [m EXCEPT !.w = FALSE] ELSE [m EXCEPT !.r = @ - 1]

\* the call and its c.mu.Lock() / c.mu.RLock()
Acquire(t, o, k, v, e) ==
    /\ thr[t].pc = "idle"
    /\ CanLock(LockMode(o), mu)
    /\ mu' = Locked(LockMode(o), mu)
    /\ thr' = [thr EXCEPT ![t] = [NoCall EXCEPT !.pc = "in", !.op = o, !.key = k, !.val = v,
                                                !.expiry = e, !.snap = items]]
    /\ UNCHANGED <<now, cacheVars, ev, callVars, storeVars, jsnap>>

\* the operation's statements between the lock and the deferred unlock
Body(t) ==
    /\ thr[t].pc = "in"
    /\ LET c == thr[t]
       IN /\ items' = CASE c.op = "Set" -> MapSet(items, c.key, NewItem(c.val, c.expiry, now))
                         [] c.op = "Delete" -> MapDelete(items, c.key)
                         [] OTHER -> CacheAfterRead(items, c.key, now)
          /\ thr' = [thr EXCEPT ![t].pc = "out", ![t].at = now,
                                ![t].res = CASE c.op = "Get" -> CacheGet(items, c.key, now)
                                             [] c.op = "Has" -> [value |-> 0, found |-> CacheHas(items, c.key, now)]
                                             [] OTHER -> @]
    /\ UNCHANGED <<now, nextTick, tickPending, jpc, jnow, setInfo, ev, callVars, storeVars, mu, jsnap>>

\* the deferred c.mu.Unlock() / c.mu.RUnlock(), and the return
Release(t) ==
    /\ thr[t].pc = "out"
    /\ mu' = Unlocked(LockMode(thr[t].op), mu)
    /\ thr' = [thr EXCEPT ![t] = NoCall]
    /\ UNCHANGED <<now, cacheVars, ev, callVars, storeVars, jsnap>>

\* deleteExpired: c.mu.Lock(), after `now` was taken
JanitorLock ==
    /\ jpc = "sweep"
    /\ CanLock("write", mu)
    /\ mu' = Locked("write", mu)
    /\ jpc' = "locked"
    /\ jsnap' = items
    /\ UNCHANGED <<now, items, nextTick, tickPending, jnow, setInfo, ev, callVars, storeVars, thr>>

\* deleteExpired: the loop
JanitorDelete ==
    /\ jpc = "locked"
    /\ items' = DeleteExpired(items, jnow)
    /\ jpc' = "swept"
    /\ UNCHANGED <<now, nextTick, tickPending, jnow, setInfo, ev, callVars, storeVars, lockVars>>

\* deleteExpired: the deferred c.mu.Unlock()
JanitorUnlock ==
    /\ jpc = "swept"
    /\ mu' = Unlocked("write", mu)
    /\ jpc' = "wait"
    /\ jnow' = 0
    /\ jsnap' = << >>
    /\ UNCHANGED <<now, items, nextTick, tickPending, setInfo, ev, callVars, storeVars, thr>>

\* ------------------------------------------------------- CacheTokenManager
Callers == {"c1", "c2"}
ExpiresIn == {-1, 0, 1}         \* the expires_in values the server declares, in ticks

NoResp == [token |-> 0, expires |-> 0]
NoToken == -1                   \* no token at all, where 0 is the token ""
NoneReturned == -2              \* GenerateToken returned an error
NoResult == [kind |-> "none", msg |-> "", tok |-> 0]
Envelope(status) == [kind |-> "envelope", msg |-> status, tok |-> 0]
Failure(msg) == [kind |-> "error", msg |-> msg, tok |-> 0]
Token(t) == [kind |-> "token", msg |-> "", tok |-> t]
Bool(b) == [kind |-> "bool", msg |-> IF b THEN "true" ELSE "false", tok |-> 0]

\* What POST {authServer}/token can come back with: a token object, some other
\* JSON object (an error body), a body that is not JSON, or no response at all.
AuthBodies ==
    {[kind |-> "token", token |-> issued + 1, expires |-> e] : e \in
        IF issued < MaxTokens THEN ExpiresIn ELSE {}}
    \cup {[kind |-> k, token |-> 0, expires |-> 0] : k \in {"object", "garbage", "unreachable"}}

\* GenerateToken's error returns: client.Do, ioutil.ReadAll, json.Unmarshal
GenerateFails(r) == r.kind \in {"garbage", "unreachable"}

\* json.Unmarshal(body, &tokenResp): fields absent from the object stay zero,
\* so an error object decodes to the token "" with expires_in 0
TokenRespOf(r) ==
    IF r.kind = "token" THEN [token |-> r.token, expires |-> r.expires]
    ELSE NoResp

\* the expiry GenerateToken passes to cache.Set
TokenTtl(resp) == resp.expires

\* a faulty variant: GetToken does not look into the cache
TokenLookup_Skipped(m, t) == [value |-> 0, found |-> FALSE]

\* GetToken's `t.cache.Get(t.tokenKey)`
TokenLookup(m, t) == CacheGet(m, tokenKey, t)

\* ------------------------------------------------------ FileStorageManager
RestOps == {"UploadBase64File", "Upload", "Delete", "GetFileById"}
RetryArgs == {-1, 0, 1, 2}      \* the arguments of SetMaxRetry tried
Statuses == {0, 200, 404, 500, 503}     \* 0: client.Do returned an error
Bodies == {"OK", "ERR", "bad"}  \* the envelope's status, or a body that is not one
Strs == {"", "x"}
FileNames == {<< >>, <<"a">>, <<"a", ".">>, <<".", "t">>, <<"a", ".", "t">>}

ErrExhausted == "exceeded maximum retry attempts"
ErrInvalid == "invalid arguments"

\* a faulty variant: the bound is met only when reached exactly
Exhausted_Equal(a, m) == a = m

\* a faulty variant: the loop has no bound
Exhausted_Never(a, m) == FALSE

\* a faulty variant: the bound is off by one
Exhausted_OffByOne(a, m) == a > m

\* `if attempts >= f.maxRetry`
Exhausted(a, m) == a >= m

\* a faulty variant: a transport failure is not retried
Transient_StatusOnly(status) == status >= ServerError

\* a faulty variant: client errors are retried too
Transient_From400(status) == status = 0 \/ status >= 400

\* `if err != nil { ... continue }` and `if resp.StatusCode >= 500 { ... continue }`
Transient(status) == status = 0 \/ status >= ServerError

\* a faulty variant: the extension is not checked
InvalidArguments_ExtensionUnchecked(filename, extension, mimetype, base64file) ==
    filename = "" \/ mimetype = "" \/ base64file = ""

\* `if filename == "" || extension == "" || mimetype == "" || base64file == ""`
InvalidArguments(filename, extension, mimetype, base64file) ==
    filename = "" \/ extension = "" \/ mimetype = "" \/ base64file = ""

\* the keys that the JSON object of a response may hold beside its status
BodyKeys == {{}, {"data"}, {"data", "string_data", "StreamData"}}

\* json.Unmarshal into FileResponse: "data" fills Data, "string_data" fills
\* StringData, and no key fills StreamData, which is tagged json:"-"
JsonPayload(keys) ==
    {f \in {"Data", "StringData"} :
        (f = "Data" /\ "data" \in keys) \/ (f = "StringData" /\ "string_data" \in keys)}

\* ioutil.ReadAll(resp.Body) and json.Unmarshal(body, &fileResponse)
ParseBody(b) == IF b = "bad" THEN Failure("body") ELSE Envelope(b)

\* filepath.Base, for names without a separator
Base(name) == IF name = << >> THEN <<".">> ELSE name

\* filepath.Ext: the suffix from the last dot on
Ext(name) ==
    LET dots == {i \in 1..Len(name) : name[i] = "."}
    IN IF dots = {} THEN << >>
       ELSE SubSeq(name, CHOOSE i \in dots : \A j \in dots : j <= i, Len(name))

\* Upload: `if extension != "" { extension = extension[1:] }`
UploadExt(name) == IF Ext(Base(name)) # << >> THEN Tail(Ext(Base(name))) ELSE << >>

\* Upload: `filename[:len(filename)-len(extension)-1]`
UploadName(name) == SubSeq(Base(name), 1, Len(Base(name)) - Len(UploadExt(name)) - 1)

AsStr(s) == IF s = << >> THEN "" ELSE "x"

Idle(p) == pc[p] = "idle"

\* a call begins: its locals and its history start afresh
Begin(p, o, at, res) ==
    /\ Idle(p)
    /\ op' = [op EXCEPT ![p] = o]
    /\ pc' = [pc EXCEPT ![p] = at]
    /\ result' = [result EXCEPT ![p] = res]
    /\ ctx' = [ctx EXCEPT ![p] = IF o = "GenerateToken" THEN "direct" ELSE "none"]
    /\ attempts' = [attempts EXCEPT ![p] = 0]
    /\ tok' = [tok EXCEPT ![p] = 0]
    /\ aresp' = [aresp EXCEPT ![p] = NoResp]
    /\ log' = [log EXCEPT ![p] = << >>]
    /\ forced' = [forced EXCEPT ![p] = 0]
    /\ authReqs' = [authReqs EXCEPT ![p] = 0]
    /\ prevGT' = [prevGT EXCEPT ![p] = IF o = "GetToken" THEN @ ELSE NoSet]
    /\ ev' = NoEv
    /\ UNCHANGED <<now, extVars, cacheVars, maxRetry, issued, look, body, payload, regen>>

\* UploadBase64File up to its loop
UploadBase64File(p, filename, extension, mimetype, base64file) ==
    IF InvalidArguments(filename, extension, mimetype, base64file)
    THEN Begin(p, "UploadBase64File", "done", Failure(ErrInvalid))
    ELSE Begin(p, "UploadBase64File", "loop", NoResult)

\* Upload: it opens and reads the file, splits its name, base64-encodes the
\* content and returns what UploadBase64File returns
Upload(p, name, ctype, data, opens) ==
    IF ~opens THEN Begin(p, "Upload", "done", Failure("open"))
    ELSE UploadBase64File(p, AsStr(UploadName(name)), AsStr(UploadExt(name)), ctype, data)

\* Delete and GetFileById up to their loops
StartById(p, o) == Begin(p, o, "loop", NoResult)

\* the top of the loop: the bound, then GetToken's cache lookup
LoopHead(p) ==
    /\ pc[p] = "loop"
    /\ IF Exhausted(attempts[p], maxRetry)
       THEN /\ pc' = [pc EXCEPT ![p] = "done"]
            /\ result' = [result EXCEPT ![p] = Failure(ErrExhausted)]
            /\ UNCHANGED <<tok, ctx>>
       ELSE LET g == TokenLookup(items, now)
            IN /\ pc' = [pc EXCEPT ![p] = IF g.found THEN "http" ELSE "auth"]
               /\ tok' = [tok EXCEPT ![p] = g.value]
               /\ ctx' = [ctx EXCEPT ![p] = IF g.found THEN "none" ELSE "get"]
               /\ UNCHANGED result
    /\ regen' = [regen EXCEPT ![p] = NoToken]
    /\ ev' = NoEv
    /\ UNCHANGED <<now, extVars, cacheVars, maxRetry, issued, op, attempts, aresp, log, forced,
                   authReqs, prevGT, look, body, payload>>

\* a faulty variant: the retry branch does not regenerate the token
AfterTransient_NoRefresh == "loop"

\* the retry branch: `attempts++; f.tokenManager.GenerateToken(); continue`
AfterTransient == "auth"

\* client.Do(req) and what the loop does with the response
HttpAttempt(p, status, b, keys) ==
    /\ pc[p] = "http"
    /\ log' = [log EXCEPT ![p] = Append(@, status)]
    /\ IF Transient(status)
       THEN /\ attempts' = [attempts EXCEPT ![p] = @ + 1]
            /\ pc' = [pc EXCEPT ![p] = AfterTransient]
            /\ ctx' = [ctx EXCEPT ![p] = IF AfterTransient = "auth" THEN "forced" ELSE "none"]
            /\ UNCHANGED <<result, body, payload>>
       ELSE /\ pc' = [pc EXCEPT ![p] = "done"]
            /\ result' = [result EXCEPT ![p] = ParseBody(b)]
            /\ body' = [body EXCEPT ![p] = b]
            /\ payload' = [payload EXCEPT ![p] = IF b = "bad" THEN {} ELSE JsonPayload(keys)]
            /\ UNCHANGED <<attempts, ctx>>
    /\ tok' = [tok EXCEPT ![p] = 0]
    /\ ev' = NoEv
    /\ UNCHANGED <<now, extVars, cacheVars, maxRetry, issued, op, aresp, forced, authReqs, prevGT,
                   look, regen>>

\* where GenerateToken's caller goes when it returns an error: GetToken passes
\* the error on and the loop returns it; the retry branch drops it
AfterError(c) == IF c = "forced" THEN "loop" ELSE "done"

\* GenerateToken up to the decoded response
AuthRequest(p, r) ==
    /\ pc[p] = "auth"
    /\ authReqs' = [authReqs EXCEPT ![p] = @ + 1]
    /\ forced' = [forced EXCEPT ![p] = IF ctx[p] = "forced" THEN @ + 1 ELSE @]
    /\ issued' = IF r.kind = "token" THEN issued + 1 ELSE issued
    /\ IF GenerateFails(r)
       THEN /\ pc' = [pc EXCEPT ![p] = AfterError(ctx[p])]
            /\ result' = [result EXCEPT ![p] =
                            IF AfterError(ctx[p]) = "done" THEN Failure("auth") ELSE @]
            /\ ctx' = [ctx EXCEPT ![p] = "none"]
            /\ UNCHANGED aresp
       ELSE /\ pc' = [pc EXCEPT ![p] = "store"]
            /\ aresp' = [aresp EXCEPT ![p] = TokenRespOf(r)]
            /\ UNCHANGED <<result, ctx>>
    /\ regen' = [regen EXCEPT ![p] = IF GenerateFails(r) /\ ctx[p] = "forced"
                                      THEN NoneReturned ELSE @]
    /\ ev' = NoEv
    /\ UNCHANGED <<now, extVars, cacheVars, maxRetry, op, attempts, tok, log, prevGT, look, body, payload>>

\* GenerateToken's cache.Set and its return to GetToken, the retry branch or the caller
StoreToken(p) ==
    /\ pc[p] = "store"
    /\ items' = MapSet(items, tokenKey, NewItem(aresp[p].token, TokenTtl(aresp[p]), now))
    /\ pc' = [pc EXCEPT ![p] = CASE ctx[p] = "get" -> "http"
                                 [] ctx[p] = "forced" -> "loop"
                                 [] OTHER -> "done"]
    /\ tok' = [tok EXCEPT ![p] = IF ctx[p] = "get" THEN aresp[p].token ELSE 0]
    /\ result' = [result EXCEPT ![p] = IF ctx[p] = "direct" THEN Token(aresp[p].token) ELSE @]
    /\ prevGT' = [q \in Callers |->
                    IF q = p /\ op[p] = "GetToken"
                    THEN [v |-> aresp[p].token, t |-> now, ttl |-> TokenTtl(aresp[p]), set |-> TRUE]
                    ELSE NoSet]
    /\ ctx' = [ctx EXCEPT ![p] = "none"]
    /\ aresp' = [aresp EXCEPT ![p] = NoResp]
    /\ regen' = regen
    /\ ev' = NoEv
    /\ UNCHANGED <<now, extVars, nextTick, tickPending, jpc, jnow, setInfo, maxRetry, issued, op,
                   attempts, log, forced, authReqs, look, body, payload>>

\* CacheTokenManager.GetToken, called by itself
GetToken(p) == Begin(p, "GetToken", "gettoken", NoResult)

\* history: the cache as a GetToken lookup meets it.  live: an entry is stored
\* under the token key and its expiration instant, if it has one, has not
\* passed.  inWindow: the token that this caller's previous GetToken generated
\* (prev) has not been replaced, and its TTL has not run out.
Met(prev) ==
    LET stored == tokenKey \in DOMAIN items
    IN [live |-> stored /\ (items[tokenKey].Expiration = 0 \/ now <= items[tokenKey].Expiration),
        val |-> IF stored THEN items[tokenKey].Value ELSE 0,
        inWindow |-> /\ prev.set
                     /\ prev.ttl > 0 => now <= prev.t + prev.ttl]

GetTokenLookup(p) ==
    /\ pc[p] = "gettoken"
    /\ LET g == TokenLookup(items, now)
       IN /\ pc' = [pc EXCEPT ![p] = IF g.found THEN "done" ELSE "auth"]
          /\ result' = [result EXCEPT ![p] = IF g.found THEN Token(g.value) ELSE @]
          /\ ctx' = [ctx EXCEPT ![p] = IF g.found THEN "none" ELSE "direct"]
    /\ look' = [look EXCEPT ![p] = Met(prevGT[p])]
    /\ ev' = NoEv
    /\ UNCHANGED <<now, extVars, cacheVars, maxRetry, issued, op, attempts, tok, aresp, log, forced,
                   authReqs, prevGT, body, payload, regen>>

\* CacheTokenManager.GenerateToken, called by itself
GenerateToken(p) == Begin(p, "GenerateToken", "auth", NoResult)

\* CacheTokenManager.HasToken
HasToken(p) == Begin(p, "HasToken", "done", Bool(CacheHas(items, tokenKey, now)))

\* the call has returned: its caller has the result, and the call's history ends
Return(p) ==
    /\ pc[p] = "done"
    /\ pc' = [pc EXCEPT ![p] = "idle"]
    /\ op' = [op EXCEPT ![p] = "none"]
    /\ result' = [result EXCEPT ![p] = NoResult]
    /\ attempts' = [attempts EXCEPT ![p] = 0]
    /\ log' = [log EXCEPT ![p] = << >>]
    /\ forced' = [forced EXCEPT ![p] = 0]
    /\ authReqs' = [authReqs EXCEPT ![p] = 0]
    /\ look' = [look EXCEPT ![p] = NoLook]
    /\ body' = [body EXCEPT ![p] = ""]
    /\ payload' = [payload EXCEPT ![p] = {}]
    /\ regen' = [regen EXCEPT ![p] = NoToken]
    /\ ev' = NoEv
    /\ UNCHANGED <<now, extVars, cacheVars, maxRetry, issued, ctx, tok, aresp, prevGT>>

\* a call that has returned is taken off before anything else moves
Returning == \E p \in Callers : pc[p] = "done"

\* FileStorageManager.SetMaxRetry, called while no operation runs
SetMaxRetry(n) ==
    /\ \A p \in Callers : Idle(p)
    /\ maxRetry' = n
    /\ ev' = NoEv
    /\ UNCHANGED <<now, extVars, cacheVars, issued, pc, op, ctx, attempts, tok, aresp, result, log,
                   forced, authReqs, prevGT, look, body, payload, regen>>


\* ------------------------------------- FileStorageManager: the object stores
Backends == {"aws", "gcs"}
FileIds == 1..MaxUploads        \* ids asked for; those not produced yet name no object
Contents == {<<255, 77>>, <<0, 255, 77, 10>>}     \* the bytes of the files tried
Mimes == {"", "text/plain"}     \* the Content-Type headers tried
Paths == {"out"}                \* the saveAsPath arguments tried

StatusSuccess == "OK"
StatusError == "ERR"

StoreOps ==
    {"AwsUpload", "AwsDelete", "AwsGetFileById", "AwsDownloadFile", "AwsGetTemporaryPublicLink",
     "GcsUpload", "GcsDelete", "GcsGetFileById", "GcsDownloadFile", "GcsGetFileByIdAsString",
     "GcsGetFileByIdAsStream", "GcsGetTemporaryPublicLink"}

BackendOf(o) == IF SubSeq(o, 1, 3) = "Aws" THEN "aws" ELSE "gcs"

\* the calls of each operation that can fail, in the order of the code
Steps(o) ==
    CASE o = "AwsUpload" -> <<"Open", "ReadAll", "GetAwsClient", "PutObject">>
      [] o = "AwsDelete" -> <<"GetAwsClient", "DeleteObject">>
      [] o = "AwsGetFileById" -> <<"GetAwsClient", "GetObject", "ReadBody">>
      [] o = "AwsDownloadFile" -> <<"GetAwsClient", "Create", "GetObject", "Copy">>
      [] o = "AwsGetTemporaryPublicLink" -> <<"GetAwsClient", "Presign">>
      [] o = "GcsUpload" -> <<"Open", "ReadAll", "GetGcsClient", "BucketAttrs", "Write",
                              "Close", "ObjectAttrs">>
      [] o = "GcsDelete" -> <<"GetGcsClient", "BucketAttrs", "ObjectAttrs", "Delete">>
      [] o = "GcsGetFileById" -> <<"GetGcsClient", "BucketAttrs", "ObjectAttrs", "NewReader",
                                   "ReadBody">>
      [] o = "GcsDownloadFile" -> <<"GetGcsClient", "BucketAttrs", "ObjectAttrs", "Create",
                                    "NewReader", "Copy">>
      [] o = "GcsGetFileByIdAsString" -> <<"GetGcsClient", "BucketAttrs", "ObjectAttrs",
                                           "NewReader", "ReadBody">>
      [] o = "GcsGetFileByIdAsStream" -> <<"GetGcsClient", "BucketAttrs", "ObjectAttrs",
                                           "NewReader">>
      [] o = "GcsGetTemporaryPublicLink" -> <<"GetGcsClient", "BucketAttrs", "ObjectAttrs",
                                              "ReadKeyFile", "ParseKey", "SignedURL">>

\* FileInfo: the fields made from the file's name, as strings; no Info is a nil one
NoInfo == [FileName |-> << >>, FileExt |-> << >>, FileID |-> << >>]

\* a faulty variant: the envelope is built over a buffer that still holds data
Response_KeepsData(status, message) ==
    [Status |-> status, Message |-> message, Data |-> <<64>>, FileID |-> 0, Mime |-> "",
     StringData |-> << >>, StreamData |-> FALSE, URL |-> FALSE, Info |-> NoInfo,
     ExpiredAt |-> 0]

\* FileResponse; Data is a string of base64 digits, StringData a string of
\* bytes, StreamData and URL are set or not, Info is the FileInfo of an upload,
\* ExpiredAt an instant of the clock, 0 for the zero time.Time
Response(status, message) ==
    [Status |-> status, Message |-> message, Data |-> << >>, FileID |-> 0, Mime |-> "",
     StringData |-> << >>, StreamData |-> FALSE, URL |-> FALSE, Info |-> NoInfo,
     ExpiredAt |-> 0]

NoReturn == [kind |-> "none", resp |-> Response("", "")]
Returned(resp) == [kind |-> "response", resp |-> resp]
Raised == [kind |-> "error", resp |-> Response("", "")]

NoOp == [state |-> "idle", op |-> "none", id |-> 0, data |-> << >>, mime |-> "", path |-> "",
         i |-> 0, done |-> << >>, failed |-> "", created |-> FALSE, present |-> FALSE,
         client |-> "none", had |-> FALSE, name |-> << >>, sub |-> << >>,
         at |-> 0, given |-> 0, expiry |-> 0, signed |-> 0]

\* base64.StdEncoding.EncodeToString: three bytes make four digits of six
\* bits, a shorter last group is padded with '=' (here 64)
Base64Group(g) ==
    CASE Len(g) = 1 -> <<g[1] \div 4, (g[1] % 4) * 16, 64, 64>>
      [] Len(g) = 2 -> <<g[1] \div 4, (g[1] % 4) * 16 + g[2] \div 16, (g[2] % 16) * 4, 64>>
      [] OTHER -> <<g[1] \div 4, (g[1] % 4) * 16 + g[2] \div 16,
                    (g[2] % 16) * 4 + g[3] \div 64, g[3] % 64>>

\* a faulty variant: only the first group is encoded
Base64Encode_FirstGroup(b) ==
    IF Len(b) = 0 THEN << >> ELSE Base64Group(SubSeq(b, 1, IF Len(b) < 3 THEN Len(b) ELSE 3))

RECURSIVE Base64Encode(_)
Base64Encode(b) ==
    IF Len(b) = 0 THEN << >>
    ELSE IF Len(b) <= 3 THEN Base64Group(b)
    ELSE Base64Group(SubSeq(b, 1, 3)) \o Base64Encode(SubSeq(b, 4, Len(b)))

\* What the store keeps as the object's content type.  The code passes the
\* header on as it is; a store given none assigns one of its own.
StoredType(b, mime) ==
    IF mime # "" THEN mime
    ELSE IF b = "aws" THEN "binary/octet-stream" ELSE "application/octet-stream"

\* Can the call succeed?  Reading or describing an object needs the object;
\* s3 DeleteObject does not: it reports success for a key that names nothing.
\* The signing calls get whatever expiry the operation has; what the SDKs do
\* with one that has passed is outside this code, so they may succeed or fail.
CanSucceed(step, present) ==
    step \in {"GetObject", "ObjectAttrs", "NewReader", "Delete"} => present

\* a faulty variant: a failed PutObject is returned as an error
FailureRaised_PutObject(o, step) == step \in {"Open", "ReadAll", "PutObject"}

\* the failures returned as `nil, err`: the upload's file.Open and ioutil.ReadAll
FailureRaised(o, step) == step \in {"Open", "ReadAll"}

\* the Message of the ERR envelope: a text of the client's, or err.Error() ("sdk")
FailureMessage(o, step) ==
    CASE step = "BucketAttrs" -> "Bucket not found"
      [] step = "ObjectAttrs" /\ o # "GcsUpload" -> "Object not found"
      [] step = "ReadKeyFile" -> "Failed to read service account key"
      [] step = "ParseKey" -> "Failed to parse service account key"
      [] OTHER -> "sdk"

\* a faulty variant: a failed copy leaves the file
Removes_NotAfterCopy(o, step) ==
    \/ o = "AwsDownloadFile" /\ step \in {"GetObject"}
    \/ o = "GcsDownloadFile" /\ step \in {"NewReader"}

\* the failures after which the download calls os.Remove(saveAsPath)
Removes(o, step) ==
    \/ o = "AwsDownloadFile" /\ step \in {"GetObject", "Copy"}
    \/ o = "GcsDownloadFile" /\ step \in {"NewReader", "Copy"}

\* a faulty variant: the client is built from a token kept in the cache
CacheAfterClient_StoresToken(m) == MapSet(m, tokenKey, NewItem(1, 0, 0))

\* GetAwsClient and GetGcsClient take their credentials from Config; the token
\* cache is not involved
CacheAfterClient(m) == m

\* the subdirectories, unique names and extensions of the keys tried, as strings
Subdirs == {<< >>, <<"d">>, <<"d", "/", "u1">>}
UniqueNames == {<<"u1">>, <<"u2">>}
Extensions == {<< >>, <<"t">>, <<"u2">>}

\* fileID: uniqueFilename = uuid + "." + extension, after subdirectory + "/" if one is given
FileKey(subdirectory, unique, extension) ==
    IF subdirectory # << >>
    THEN subdirectory \o <<"/">> \o unique \o <<".">> \o extension
    ELSE unique \o <<".">> \o extension

\* uuid.New().String() of the n-th upload, as one letter of the key
UniqueName(n) == CASE n = 1 -> <<"u1">> [] n = 2 -> <<"u2">> [] OTHER -> <<"u3">>

\* the upload's FileInfo: extension, fileID and the name cut from origFilename
UploadInfo(c) ==
    [FileName |-> UploadName(c.name),
     FileExt |-> UploadExt(c.name),
     FileID |-> FileKey(c.sub, UniqueName(c.id), UploadExt(c.name))]

\* the FileResponse of an operation whose calls all succeeded
Success(c, obj) ==
    CASE c.op \in {"AwsUpload", "GcsUpload"} ->
            [Response(StatusSuccess, "INSERT") EXCEPT
                !.FileID = c.id,
                !.Info = UploadInfo(c),
                !.Mime = IF c.op = "AwsUpload" THEN c.mime ELSE obj.mime]
      [] c.op \in {"AwsDelete", "GcsDelete"} -> Response(StatusSuccess, "DELETE")
      [] c.op \in {"AwsGetFileById", "GcsGetFileById"} ->
            [Response(StatusSuccess, "") EXCEPT
                !.Data = Base64Encode(obj.data), !.FileID = c.id, !.Mime = obj.mime]
      [] c.op \in {"AwsDownloadFile", "GcsDownloadFile"} ->
            Response(StatusSuccess, "File success saved to")
      [] c.op = "GcsGetFileByIdAsString" ->
            [Response(StatusSuccess, "") EXCEPT !.StringData = obj.data]
      [] c.op = "GcsGetFileByIdAsStream" ->
            [Response(StatusSuccess, "") EXCEPT !.StreamData = TRUE]
      [] OTHER -> [Response(StatusSuccess, "") EXCEPT !.URL = TRUE, !.ExpiredAt = c.expiry]

NoObject == [data |-> << >>, mime |-> "", given |-> "", ack |-> FALSE]

ObjectOf(b, id) == IF id \in DOMAIN objects[b] THEN objects[b][id] ELSE NoObject

\* the bucket after a call that succeeded
ObjectsAfter(c, step) ==
    LET b == BackendOf(c.op)
    IN CASE step \in {"PutObject", "Close"} ->
               [objects EXCEPT ![b] = MapSet(@, c.id,
                    [data |-> c.data, mime |-> StoredType(b, c.mime), given |-> c.mime,
                     ack |-> FALSE])]
         [] step \in {"DeleteObject", "Delete"} -> [objects EXCEPT ![b] = MapDelete(@, c.id)]
         [] OTHER -> objects

\* the upload returned OK with the file id (history)
Acknowledged(c, objs) ==
    IF c.op \in {"AwsUpload", "GcsUpload"}
    THEN [objs EXCEPT ![BackendOf(c.op)][c.id].ack = TRUE]
    ELSE objs

\* the link operations' `expiry` once `if expiry.IsZero()` has run; the zero
\* time.Time is 0, the other operations have no expiry
LinkExpiry(o, expiry, t) ==
    IF o \in {"AwsGetTemporaryPublicLink", "GcsGetTemporaryPublicLink"} /\ expiry = 0
    THEN t + DefaultLinkExpiry
    ELSE expiry

\* the instant up to which the URL is signed: req.Presign signs, at t, for the
\* duration expiry.Sub(time.Now()); storage.SignedURL for Expires: expiry
SignedUntil(c, step, t) ==
    CASE step = "Presign" -> t + (c.expiry - t)
      [] step = "SignedURL" -> c.expiry
      [] OTHER -> c.signed

\* an operation is called
StoreBegin(o, id, data, mime, path, name, subdirectory, expiry) ==
    /\ so.state = "idle"
    /\ so' = [NoOp EXCEPT !.state = "run", !.op = o, !.id = id, !.data = data, !.mime = mime,
                          !.path = path, !.i = 1,
                          !.present = id \in DOMAIN objects[BackendOf(o)],
                          !.had = path \in disk,
                          !.name = name, !.sub = subdirectory,
                          !.at = now, !.given = expiry, !.expiry = LinkExpiry(o, expiry, now)]
    /\ sret' = NoReturn
    /\ UNCHANGED <<now, cacheVars, ev, callVars, lockVars, objects, disk>>

\* a faulty variant: the name is taken from the file, the same at every upload
NewUnique_Fixed(n) == 1

\* uuid.New(): a name no earlier upload got; the n-th upload gets n.  The key
\* is one-to-one in the unique name, and the stores are indexed by it.
NewUnique(n) == n

\* AwsUpload and GcsUpload; the file id is made from uuid.New()
StoreUpload(o, file, subdirectory, data, mime) ==
    /\ uploads < MaxUploads
    /\ uploads' = uploads + 1
    /\ StoreBegin(o, NewUnique(uploads + 1), data, mime, "", file, subdirectory, 0)

AwsUpload(file, subdirectory, data, mime) == StoreUpload("AwsUpload", file, subdirectory, data, mime)
GcsUpload(file, subdirectory, data, mime) == StoreUpload("GcsUpload", file, subdirectory, data, mime)

\* the temporary links, with the caller's expiry
StoreLink(o, id, expiry) ==
    StoreBegin(o, id, << >>, "", "", << >>, << >>, expiry) /\ UNCHANGED uploads

\* the operations on a file id
StoreById(o, id) == StoreBegin(o, id, << >>, "", "", << >>, << >>, 0) /\ UNCHANGED uploads

AwsDelete(id) == StoreById("AwsDelete", id)
AwsGetFileById(id) == StoreById("AwsGetFileById", id)
AwsGetTemporaryPublicLink(id, expiry) == StoreLink("AwsGetTemporaryPublicLink", id, expiry)
GcsDelete(id) == StoreById("GcsDelete", id)
GcsGetFileById(id) == StoreById("GcsGetFileById", id)
GcsGetFileByIdAsString(id) == StoreById("GcsGetFileByIdAsString", id)
GcsGetFileByIdAsStream(id) == StoreById("GcsGetFileByIdAsStream", id)
GcsGetTemporaryPublicLink(id, expiry) == StoreLink("GcsGetTemporaryPublicLink", id, expiry)

\* the downloads to a local path
StoreDownload(o, id, path) == StoreBegin(o, id, << >>, "", path, << >>, << >>, 0) /\ UNCHANGED uploads

AwsDownloadFile(id, path) == StoreDownload("AwsDownloadFile", id, path)
GcsDownloadFile(id, path) == StoreDownload("GcsDownloadFile", id, path)

\* the operations that `defer gcsClient.Close()` once they have their client
DefersClose(o) == BackendOf(o) = "gcs" /\ o # "GcsGetFileByIdAsStream"

\* the storage.Client of the operation after a call: opened by GetGcsClient,
\* closed when the operation returns (returns) if it deferred the Close or,
\* in GcsGetFileByIdAsStream, if it returns from one of its error branches
ClientAfter(c, step, ok, returns) ==
    LET opened == IF step = "GetGcsClient" /\ ok THEN "open" ELSE c.client
    IN IF opened = "open" /\ returns /\ (DefersClose(c.op) \/ ~ok) THEN "closed" ELSE opened

\* the handles a caller gets with a FileResponse: the reader in StreamData
Handles(resp) == IF resp.StreamData THEN {"reader"} ELSE {}

\* the next call of the running operation, which succeeds (ok) or fails, and
\* what the operation does with the outcome
StoreStep(ok) ==
    /\ so.state = "run"
    /\ LET step == Steps(so.op)[so.i]
           b == BackendOf(so.op)
           last == so.i = Len(Steps(so.op))
           after == ObjectsAfter(so, step)
       IN /\ ok => CanSucceed(step, so.id \in DOMAIN objects[b])
          /\ items' = IF step \in {"GetAwsClient", "GetGcsClient"}
                      THEN CacheAfterClient(items) ELSE items
          /\ IF ok
             THEN /\ objects' = IF last THEN Acknowledged(so, after) ELSE after
                  /\ disk' = IF step = "Create" THEN disk \cup {so.path} ELSE disk
                  /\ so' = [so EXCEPT !.state = IF last THEN "done" ELSE "run",
                                      !.i = @ + 1,
                                      !.done = Append(@, step),
                                      !.created = @ \/ step = "Create",
                                      !.signed = SignedUntil(so, step, now),
                                      !.client = ClientAfter(so, step, TRUE, last)]
                  /\ sret' = IF last
                             THEN Returned(Success(so, IF so.id \in DOMAIN after[b]
                                                       THEN after[b][so.id] ELSE NoObject))
                             ELSE sret
             ELSE /\ objects' = objects
                  /\ disk' = IF Removes(so.op, step) THEN disk \ {so.path} ELSE disk
                  /\ so' = [so EXCEPT !.state = "done", !.done = Append(@, step),
                                      !.failed = step,
                                      !.client = ClientAfter(so, step, FALSE, TRUE)]
                  /\ sret' = IF FailureRaised(so.op, step) THEN Raised
                             ELSE Returned(Response(StatusError, FailureMessage(so.op, step)))
    /\ UNCHANGED <<now, nextTick, tickPending, jpc, jnow, setInfo, ev, callVars, lockVars,
                   uploads>>

\* the operation has returned
StoreReturn ==
    /\ so.state = "done"
    /\ so' = NoOp
    /\ sret' = NoReturn
    /\ UNCHANGED <<now, cacheVars, ev, callVars, lockVars, objects, disk, uploads>>


vars == <<now, items, nextTick, tickPending, jpc, jnow, setInfo, ev, callVars, extVars>>

\* NewMemoryCache: an empty map and a running janitor
Init ==
    /\ now = 1
    /\ items = << >>
    /\ nextTick = 1 + SweepInterval
    /\ tickPending = FALSE
    /\ jpc = "wait"
    /\ jnow = 0
    /\ setInfo = [k \in Keys |-> NoSet]
    /\ ev = NoEv
    /\ maxRetry = DefaultMaxRetry
    /\ issued = 0
    /\ pc = [p \in Callers |-> "idle"]
    /\ op = [p \in Callers |-> "none"]
    /\ ctx = [p \in Callers |-> "none"]
    /\ attempts = [p \in Callers |-> 0]
    /\ tok = [p \in Callers |-> 0]
    /\ aresp = [p \in Callers |-> NoResp]
    /\ result = [p \in Callers |-> NoResult]
    /\ log = [p \in Callers |-> << >>]
    /\ forced = [p \in Callers |-> 0]
    /\ authReqs = [p \in Callers |-> 0]
    /\ prevGT = [p \in Callers |-> NoSet]
    /\ look = [p \in Callers |-> NoLook]
    /\ body = [p \in Callers |-> ""]
    /\ payload = [p \in Callers |-> {}]
    /\ regen = [p \in Callers |-> NoToken]
    /\ mu = [w |-> FALSE, r |-> 0]
    /\ thr = [t \in Threads |-> NoCall]
    /\ jsnap = << >>
    /\ objects = [b \in Backends |-> << >>]
    /\ disk = {}
    /\ uploads = 0
    /\ so = NoOp
    /\ sret = NoReturn

CacheWriter ==
    \/ \E k \in UserKeys, v \in UserValues, e \in Expiries : Set(k, v, e)
    \/ \E k \in UserKeys : Delete(k)

CacheReader ==
    \/ \E k \in UserKeys : Get(k)
    \/ \E k \in UserKeys : Has(k)

CacheClient == CacheWriter \/ CacheReader

Janitor == TickerFire \/ JanitorWake \/ JanitorSweep

NextCache == CacheClient \/ Janitor \/ Advance(MaxTime)

SpecCache == Init /\ [][NextCache]_vars

\* the steps of GenerateToken, whoever called it
Generate(p) ==
    \/ \E b \in AuthBodies : AuthRequest(p, b)
    \/ StoreToken(p)

\* the steps of the REST operations, with the payload keys K in the responses
RestSteps(p, K) ==
    \/ \E f, e, m, b \in Strs : UploadBase64File(p, f, e, m, b)
    \/ \E n \in FileNames, c, d \in Strs, o \in BOOLEAN : Upload(p, n, c, d, o)
    \/ \E o \in {"Delete", "GetFileById"} : StartById(p, o)
    \/ LoopHead(p)
    \/ \E s \in Statuses, b \in Bodies, k \in K : HttpAttempt(p, s, b, k)

\* the payload of the response plays no part in the loop
RestCall(p) == RestSteps(p, {{}})

TokenCall(p) ==
    \/ GetToken(p)
    \/ GetTokenLookup(p)
    \/ GenerateToken(p)
    \/ HasToken(p)

\* one caller of the REST operations, as an HTTP handler runs them
NextRest ==
    \/ Returning /\ Return("c1")
    \/ ~Returning /\ (RestCall("c1") \/ Generate("c1"))
    \/ ~Returning /\ \E n \in RetryArgs : SetMaxRetry(n)
    \/ ~Returning /\ Janitor
    \/ ~Returning /\ Advance(MaxCallTime)

SpecRest == Init /\ [][NextRest]_vars

\* the REST operations and SetMaxRetry within one tick of the clock
NextRetry ==
    \/ Returning /\ Return("c1")
    \/ ~Returning /\ (RestCall("c1") \/ Generate("c1"))
    \/ ~Returning /\ \E n \in RetryArgs : SetMaxRetry(n)

SpecRetry == Init /\ [][NextRetry]_vars

\* the same, where every request returns and the call goes on
SpecTerminate ==
    /\ Init /\ [][NextRetry]_vars
    /\ WF_vars(~Returning /\ (RestCall("c1") \/ Generate("c1")))
    /\ WF_vars(Returning /\ Return("c1"))

\* concurrent callers of the token manager
NextToken ==
    \/ \E p \in Callers : Returning /\ Return(p)
    \/ \E p \in Callers : ~Returning /\ (TokenCall(p) \/ Generate(p))
    \/ ~Returning /\ Janitor
    \/ ~Returning /\ Advance(MaxCallTime)

SpecToken == Init /\ [][NextToken]_vars

\* The cache as the janitor meets it: the callers that write the map, the
\* ticker and the clock.  The janitor runs whenever its tick is there, and the
\* clock goes on.
NextSweep == CacheWriter \/ Janitor \/ Advance(MaxTime)

SpecSweep ==
    /\ Init /\ [][NextSweep]_vars
    /\ WF_vars(Advance(MaxTime))
    /\ WF_vars(TickerFire)
    /\ WF_vars(JanitorWake)
    /\ WF_vars(JanitorSweep)

\* the cache's operations step by step through the lock, called from two
\* goroutines while the janitor runs
LockedCall(t) ==
    \/ \E k \in LockKeys, v \in UserValues, e \in LockExpiries : Acquire(t, "Set", k, v, e)
    \/ \E k \in LockKeys, o \in {"Get", "Has", "Delete"} : Acquire(t, o, k, 0, 0)
    \/ Body(t)
    \/ Release(t)

NextLock ==
    \/ \E t \in Threads : LockedCall(t)
    \/ TickerFire \/ JanitorWake
    \/ JanitorLock \/ JanitorDelete \/ JanitorUnlock
    \/ Advance(MaxTime)

SpecLock == Init /\ [][NextLock]_vars

\* the object-store operations, one at a time, beside a cache that is in use
StoreCall ==
    \/ \E d \in Contents, m \in Mimes :
          AwsUpload(<<"a", ".", "t">>, << >>, d, m) \/ GcsUpload(<<"a", ".", "t">>, << >>, d, m)
    \/ \E id \in FileIds : AwsDelete(id) \/ GcsDelete(id)
    \/ \E id \in FileIds : AwsGetFileById(id) \/ GcsGetFileById(id)
    \/ \E id \in FileIds : GcsGetFileByIdAsString(id) \/ GcsGetFileByIdAsStream(id)
    \/ \E id \in FileIds : AwsGetTemporaryPublicLink(id, 0) \/ GcsGetTemporaryPublicLink(id, 0)
    \/ \E id \in FileIds, f \in Paths : AwsDownloadFile(id, f) \/ GcsDownloadFile(id, f)

NextStore ==
    \/ so.state = "idle" /\ StoreCall
    \/ \E ok \in BOOLEAN : StoreStep(ok)
    \/ StoreReturn
    \/ so.state = "idle" /\ \E k \in LockKeys : Set(k, 1, 0)

SpecStore == Init /\ [][NextStore]_vars

\* the uploads alone, for files of every name under every subdirectory
NextNames ==
    \/ so.state = "idle" /\ \E file \in FileNames, sd \in Subdirs :
          AwsUpload(file, sd, <<255, 77>>, "") \/ GcsUpload(file, sd, <<255, 77>>, "")
    \/ \E ok \in BOOLEAN : StoreStep(ok)
    \/ StoreReturn

SpecNames == Init /\ [][NextNames]_vars

\* the expiry arguments tried for the links: the zero time, and instants
LinkExpiries == {0, 1, 2, 4}

\* the temporary links of uploaded and of missing files while the clock runs
NextLinks ==
    \/ so.state = "idle" /\ (AwsUpload(<<"a", ".", "t">>, << >>, <<255, 77>>, "")
                               \/ GcsUpload(<<"a", ".", "t">>, << >>, <<255, 77>>, ""))
    \/ so.state = "idle" /\ \E id \in FileIds, e \in LinkExpiries :
          AwsGetTemporaryPublicLink(id, e) \/ GcsGetTemporaryPublicLink(id, e)
    \/ \E ok \in BOOLEAN : StoreStep(ok)
    \/ StoreReturn
    \/ TickerFire
    \/ Advance(MaxCallTime)

SpecLinks == Init /\ [][NextLinks]_vars

\* a client of the public operations, one call at a time within one tick of
\* the clock.  The REST operations and the object-store operations share no
\* state, so the client is followed on one side at a time: its REST calls
\* while nothing was uploaded or saved, its object-store calls while no token
\* was issued.
NextEnvelope ==
    \/ Returning /\ Return("c1")
    \/ /\ ~Returning /\ so.state = "idle" /\ uploads = 0 /\ disk = {}
       /\ (RestSteps("c1", BodyKeys) \/ Generate("c1"))
    \/ Idle("c1") /\ issued = 0 /\ so.state = "idle" /\ StoreCall
    \/ \E ok \in BOOLEAN : StoreStep(ok)
    \/ StoreReturn

SpecEnvelope == Init /\ [][NextEnvelope]_vars

Next ==
    \/ NextCache \/ NextRest \/ NextToken \/ NextLock \/ NextStore \/ NextEnvelope \/ NextRetry
    \/ NextNames \/ NextLinks

Spec == Init /\ [][Next]_vars

\* ================================================================== claims
Finished(p) == pc[p] = "done"

\* the call runs one of the three retry loops (Upload runs UploadBase64File's)
RestOp(p) == op[p] \in {"UploadBase64File", "Delete", "GetFileById"}

All5xx(l) == \A i \in 1..Len(l) : l[i] >= 500

Failures(l) == Cardinality({i \in 1..Len(l) : l[i] = 0 \/ l[i] >= 500})

C2_SuccessAfterRetries ==
    \A p \in Callers :
        LET k == Len(log[p])
        IN (/\ RestOp(p) /\ k >= 1
            /\ log[p][k] >= 200 /\ log[p][k] <= 299
            /\ \A i \in 1..(k - 1) : log[p][i] >= 500)
           => (/\ Finished(p)
               /\ k <= maxRetry
               /\ forced[p] = k - 1
               /\ body[p] # "bad" => result[p] = Envelope(body[p]))

\* maxRetry = 3, every token request answered with a token, 503, 503, 200
C2_Witness ==
    \E p \in Callers :
        /\ Finished(p) /\ op[p] = "GetFileById" /\ maxRetry = 3
        /\ log[p] = <<503, 503, 200>>
        /\ forced[p] = 2 /\ authReqs[p] = 3 /\ issued = 3
        /\ result[p] = Envelope("OK")

\* a token request of p's call gets no usable answer in this step
TokenRequestFails(p) ==
    pc[p] = "auth" /\ authReqs'[p] = authReqs[p] + 1 /\ pc'[p] # "store"

\* C3, as claimed: whenever a token request made for a REST call fails (GetToken
\* at the start of an iteration or the forced GenerateToken), the call ends at
\* once with the authentication error.
C3_Original ==
    [][\A p \in Callers :
         (RestOp(p) /\ TokenRequestFails(p))
         => (pc'[p] = "done" /\ result'[p] = Failure("auth"))]_vars

\* C4: in a REST call the attempt counter is the number of failed attempts
\* (transport failure or 5xx alike); each failed attempt is followed by exactly
\* one forced GenerateToken call, made before the next attempt is sent and
\* sent to the authorization server whatever the cache holds.
C4_OneForcedPerFailure ==
    \A p \in Callers :
        RestOp(p) =>
            /\ attempts[p] = Failures(log[p])
            /\ forced[p] = attempts[p] - (IF pc[p] = "auth" /\ ctx[p] = "forced" THEN 1 ELSE 0)
            /\ authReqs[p] >= forced[p]
            /\ pc[p] = "http" => (Len(log[p]) = forced[p] /\ Len(log[p]) = attempts[p])

\* a transport failure, then a 503, the cache holding a live token each time
C4_Witness ==
    \E p \in Callers :
        /\ pc[p] = "http" /\ RestOp(p)
        /\ log[p] = <<0, 503>>
        /\ forced[p] = 2 /\ authReqs[p] = 2 /\ attempts[p] = 2

\* C5: the first response of a REST call with a status below 500 is its last:
\* the call has ended with it, no attempt and no token regeneration follows,
\* and the result is what that response's body holds.
C5_FirstNonTransientEnds ==
    \A p \in Callers :
        RestOp(p) =>
            \A i \in 1..Len(log[p]) :
                (log[p][i] # 0 /\ log[p][i] < 500)
                => (/\ i = Len(log[p])
                    /\ Finished(p)
                    /\ attempts[p] = i - 1
                    /\ forced[p] = i - 1
                    /\ result[p] = IF body[p] = "bad" THEN Failure("body")
                                   ELSE Envelope(body[p]))

C5_Witness ==
    \E p \in Callers :
        /\ Finished(p) /\ op[p] = "UploadBase64File"
        /\ log[p] = <<503, 404>>
        /\ forced[p] = 1
        /\ result[p] = Envelope("ERR")

\* C6: GetToken returns the cached token and sends nothing to the authorization
\* server when a live token is cached, and sends one request otherwise; so a
\* GetToken that follows, inside the TTL window, the GetToken that generated
\* the cached token sends no request and returns that same token.
C6_TokenReuse ==
    \A p \in Callers :
        (Finished(p) /\ op[p] = "GetToken") =>
            /\ look[p].live => (authReqs[p] = 0 /\ result[p] = Token(look[p].val))
            /\ ~look[p].live => authReqs[p] = 1
            /\ look[p].inWindow => (authReqs[p] = 0 /\ result[p] = Token(prevGT[p].v))

C6_Witness ==
    \E p \in Callers :
        /\ Finished(p) /\ op[p] = "GetToken"
        /\ look[p].inWindow /\ prevGT[p].ttl > 0 /\ now > prevGT[p].t
        /\ authReqs[p] = 0 /\ result[p] = Token(prevGT[p].v)

\* C7: after Set(k, v, ttl) with ttl > 0 at time t and no later Set or Delete of
\* k, Get returns (v, true) and Has true strictly before t + ttl, and both
\* report not-found strictly after t + ttl, swept or not.
C7_Expiry ==
    \A k \in UserKeys :
        LET s == setInfo[k]
        IN (s.set /\ s.ttl > 0 /\ ev.key = k /\ ev.op \in {"Get", "Has"}) =>
            /\ now < s.t + s.ttl => (ev.found /\ (ev.op = "Get" => ev.val = s.v))
            /\ now > s.t + s.ttl => ~ev.found

\* Has on an entry past its TTL that no sweep has removed yet
C7_Witness ==
    \E k \in UserKeys :
        /\ ev.op = "Has" /\ ev.key = k /\ ~ev.found
        /\ setInfo[k].set /\ setInfo[k].ttl > 0 /\ now > setInfo[k].t + setInfo[k].ttl
        /\ k \in DOMAIN items

\* C8: an entry stored with Set(k, v, 0) stays stored and found, with its value,
\* however much time passes and however many sweeps run, until k is deleted or
\* set again.
C8_NonExpiring ==
    \A k \in UserKeys :
        LET s == setInfo[k]
        IN (s.set /\ s.ttl = 0) =>
            /\ k \in DOMAIN items /\ items[k].Value = s.v
            /\ (ev.key = k /\ ev.op \in {"Get", "Has"})
               => (ev.found /\ (ev.op = "Get" => ev.val = s.v))

\* Get finds the entry set at time 1 after two sweeps
C8_Witness ==
    \E k \in UserKeys :
        /\ ev.op = "Get" /\ ev.key = k /\ ev.found
        /\ setInfo[k].set /\ setInfo[k].ttl = 0 /\ setInfo[k].t = 1
        /\ nextTick > 1 + 2 * SweepInterval /\ ~tickPending /\ jpc = "wait"

Past(m, k, t) == k \in DOMAIN m /\ m[k].Expiration > 0 /\ m[k].Expiration < t

\* C9: when a sweep completes, no stored entry has an expiration instant that
\* was in the past when the sweep started; every tick of the interval leads to
\* a sweep, and every expired entry is removed (or replaced) in the end, for
\* the ticks that lie inside the clock's horizon.
C9_Sweep ==
    /\ [][(jpc = "sweep" /\ jpc' = "wait")
          => \A k \in Keys : ~Past(items', k, jnow)]_vars
    /\ (now >= nextTick) ~> (jpc = "sweep")
    /\ \A k \in UserKeys :
           (Past(items, k, now) /\ nextTick <= MaxTime) ~> ~Past(items, k, now)

\* an entry that was set, never deleted, and is gone: a sweep removed it
C9_Witness ==
    \E k \in UserKeys :
        /\ setInfo[k].set /\ setInfo[k].ttl > 0
        /\ k \notin DOMAIN items
        /\ jpc = "wait"

\* C10: Get and Has leave the map as it was and report not-found for an absent
\* or expired key; an entry is removed or changed only by a Delete or a Set of
\* its key or by a sweep.
C10_ReadsKeepEntries ==
    [][/\ ev'.op \in {"Get", "Has"}
          => /\ items' = items
             /\ (ev'.key \notin DOMAIN items \/ Past(items, ev'.key, now)) => ~ev'.found
       /\ \A k \in DOMAIN items :
              (k \notin DOMAIN items' \/ items'[k] # items[k])
              => \/ Delete(k)
                 \/ JanitorSweep
                 \/ \E v \in UserValues, e \in Expiries : Set(k, v, e)]_vars

\* Get misses an expired entry, which is still stored afterwards
C10_Witness ==
    \E k \in UserKeys :
        /\ ev.op = "Get" /\ ev.key = k /\ ~ev.found
        /\ Past(items, k, now)

\* goroutines inside the critical section of c.mu, by what their operation does
Inside(t) == thr[t].pc \in {"in", "out"}

WritersInside == {t \in Threads : Inside(t) /\ thr[t].op \in {"Set", "Delete"}}

ReadersInside == {t \in Threads : Inside(t) /\ thr[t].op \in {"Get", "Has"}}

SweepInside == jpc \in {"locked", "swept"}

\* what the operation of call c does to the map m when it runs alone at time c.at
SequentialMap(c, m) ==
    CASE c.op = "Set" -> MapSet(m, c.key, NewItem(c.val, c.expiry, c.at))
      [] c.op = "Delete" -> MapDelete(m, c.key)
      [] OTHER -> m

\* what it returns then
SequentialResult(c, m) ==
    CASE c.op = "Get" -> CacheGet(m, c.key, c.at)
      [] c.op = "Has" -> [value |-> 0, found |-> CacheHas(m, c.key, c.at)]
      [] OTHER -> [value |-> 0, found |-> FALSE]

\* C11: a writer (Set, Delete, the sweep) is never inside the cache's critical
\* section together with another reader or writer, while readers may be inside
\* together; each operation meets the map as the operations before it left
\* it and leaves what it would leave running alone, so the operations take
\* effect in the order in which they hold the lock.
C11_LockDiscipline ==
    /\ Cardinality(WritersInside) + (IF SweepInside THEN 1 ELSE 0) <= 1
    /\ (WritersInside # {} \/ SweepInside) => ReadersInside = {}
    /\ \A t \in Threads :
          /\ thr[t].pc = "in" => items = thr[t].snap
          /\ thr[t].pc = "out" =>
                /\ items = SequentialMap(thr[t], thr[t].snap)
                /\ thr[t].res = SequentialResult(thr[t], thr[t].snap)
    /\ jpc = "locked" => items = jsnap
    /\ jpc = "swept" => items = DeleteExpired(jsnap, jnow)
    /\ jpc = "swept" => \A k \in Keys : CacheGet(items, k, now) = CacheGet(jsnap, k, now)

\* two readers inside together, one done and one not, after a Set and while
\* the janitor waits for the lock with an older `now`
C11_Witness ==
    /\ ReadersInside = Threads
    /\ thr["t1"].op = "Get" /\ thr["t1"].pc = "out" /\ thr["t1"].res.found
    /\ thr["t2"].op = "Has" /\ thr["t2"].pc = "in"
    /\ jpc = "sweep" /\ jnow < now

\* C12, as claimed: every token that GenerateToken stores gets a TTL strictly
\* shorter than the expires_in the authorization server declared, so the entry
\* expires before the token does.
C12_Original ==
    [][\A p \in Callers :
         (pc[p] = "store" /\ pc'[p] # "store" /\ aresp[p].token # 0 /\ aresp[p].expires > 0)
         => /\ tokenKey \in DOMAIN items'
            /\ items'[tokenKey].Expiration > 0
            /\ items'[tokenKey].Expiration < now + aresp[p].expires]_vars

\* C13, as claimed: when the token request fails at transport level or the
\* response is not a token object (a body that is not JSON, or a JSON object
\* without access_token), GenerateToken returns an error and does not go on to
\* write the cache.
C13_Original ==
    [][\A p \in Callers : \A r \in AuthBodies :
         (AuthRequest(p, r) /\ r.kind # "token")
         => (pc'[p] # "store" /\ items' = items
             /\ (ctx[p] = "direct" => result'[p] = Failure("auth")))]_vars

\* C14: UploadBase64File called with an empty filename, extension, MIME type or
\* payload returns the validation error at once: the call is over with that
\* step, it has asked for no token, sent no request, and the cache is as it was.
C14_ValidationFirst ==
    /\ [][\A p \in Callers : \A f, e, m, b \in Strs :
            (/\ Idle(p) /\ ~Idle(p)'
             /\ (f = "" \/ e = "" \/ m = "" \/ b = "")
             /\ UploadBase64File(p, f, e, m, b))
            => /\ pc'[p] = "done" /\ result'[p] = Failure(ErrInvalid)
               /\ items' = items /\ issued' = issued]_vars
    /\ [](\A p \in Callers :
            (Finished(p) /\ result[p] = Failure(ErrInvalid))
            => (log[p] = << >> /\ authReqs[p] = 0 /\ forced[p] = 0 /\ attempts[p] = 0))

\* the validation error, returned while the cache holds the token of an earlier call
C14_Witness ==
    \E p \in Callers :
        /\ Finished(p) /\ op[p] = "UploadBase64File"
        /\ result[p] = Failure(ErrInvalid)
        /\ log[p] = << >> /\ authReqs[p] = 0
        /\ tokenKey \in DOMAIN items /\ items[tokenKey].Value > 0

\* C15: when a call to the backend or the construction of its client fails
\* in an object-store operation (anything but the upload's reading of the
\* caller's own multipart file), the operation returns a FileResponse with
\* status ERR and no error, the failed call is the last call made, and no call
\* of the operation is made twice.
C15_BackendFailure ==
    /\ (so.failed # "" /\ so.failed \notin {"Open", "ReadAll"})
          => (sret.kind = "response" /\ sret.resp.Status = StatusError)
    /\ so.failed # "" => (so.state = "done" /\ so.done[Len(so.done)] = so.failed)
    /\ \A i, j \in DOMAIN so.done : so.done[i] = so.done[j] => i = j

C15_Witness ==
    /\ so.state = "done" /\ so.op = "GcsDelete" /\ so.failed = "Delete"
    /\ sret = Returned(Response(StatusError, "sdk"))
    /\ Len(so.done) = 4

\* C16: no step of an object-store operation, from its call to its return,
\* changes the token cache, asks the authorization server for a token, or
\* starts or advances a call of the token manager.
C16_StoreFrame ==
    [][so' # so
          => /\ items' = items
             /\ issued' = issued /\ authReqs' = authReqs
             /\ pc' = pc /\ op' = op /\ tok' = tok]_vars

C16_Witness ==
    /\ so.state = "done" /\ so.op = "GcsGetFileById" /\ so.failed = ""
    /\ sret.resp.Status = StatusSuccess
    /\ DOMAIN items # {}

\* C17 (as the claim states it): a delete, on either backend, of a key that
\* names no object in the bucket returns a FileResponse with status ERR, never
\* status OK and never an error, and the message of the failed look-up of the
\* object says that it was not found.
C17_Original ==
    (so.state = "done" /\ so.op \in {"AwsDelete", "GcsDelete"} /\ ~so.present)
        => /\ sret.kind = "response"
           /\ sret.resp.Status = StatusError
           /\ so.failed = "ObjectAttrs" => sret.resp.Message = "Object not found"

\* base64 decoding: four digits make three bytes, less where the group is padded
Base64DecodeGroup(q) ==
    IF q[3] = 64 THEN <<q[1] * 4 + q[2] \div 16>>
    ELSE IF q[4] = 64 THEN <<q[1] * 4 + q[2] \div 16, (q[2] % 16) * 16 + q[3] \div 4>>
    ELSE <<q[1] * 4 + q[2] \div 16, (q[2] % 16) * 16 + q[3] \div 4, (q[3] % 4) * 64 + q[4]>>

RECURSIVE Base64Decode(_)
Base64Decode(s) ==
    IF Len(s) < 4 THEN << >>
    ELSE Base64DecodeGroup(SubSeq(s, 1, 4)) \o Base64Decode(SubSeq(s, 5, Len(s)))

GetsFile == so.state = "done" /\ so.op \in {"AwsGetFileById", "GcsGetFileById"}

\* C18: on either backend, when the upload of bytes B with content type M
\* returned OK with file id F and nothing deleted F, a GetFileById(F) that the
\* backend answers returns status OK, a Data field whose base64 decoding is B
\* and, M being a content type (not the empty header), Info.FileMimeType = M.
C18_RoundTrip ==
    LET obj == ObjectOf(BackendOf(so.op), so.id)
    IN (GetsFile /\ so.failed = "" /\ obj.ack)
          => /\ sret.kind = "response"
             /\ sret.resp.Status = StatusSuccess
             /\ Base64Decode(sret.resp.Data) = obj.data
             /\ obj.given # "" => sret.resp.Mime = obj.given

C18_Witness ==
    /\ GetsFile /\ so.op = "GcsGetFileById" /\ so.failed = ""
    /\ ObjectOf("gcs", so.id) = [data |-> <<0, 255, 77, 10>>, mime |-> "text/plain",
                                 given |-> "text/plain", ack |-> TRUE]
    /\ sret.resp.Data = <<0, 15, 61, 13, 2, 32, 64, 64>>
    /\ sret.resp.Mime = "text/plain"

Downloads == so.state = "done" /\ so.op \in {"AwsDownloadFile", "GcsDownloadFile"}

Populated(resp) ==
    {f \in {"Data", "StringData", "StreamData"} :
        \/ f = "Data" /\ resp.Data # << >>
        \/ f = "StringData" /\ resp.StringData # << >>
        \/ f = "StreamData" /\ resp.StreamData}

\* the FileResponses built by the client hold at most one payload, none with status ERR
ClientBuilt ==
    sret.kind = "response"
        => /\ Cardinality(Populated(sret.resp)) <= 1
           /\ sret.resp.Status = StatusError => Populated(sret.resp) = {}

\* C20 (as the claim states it): every FileResponse returned by a public
\* operation, REST or object store, has at most one of Data, StringData and
\* StreamData set, and an ERR envelope built by the client has none.
C20_Original ==
    /\ ClientBuilt
    /\ \A p \in Callers :
          (Finished(p) /\ result[p].kind = "envelope") => Cardinality(payload[p]) <= 1

\* C20 (amended): every FileResponse built by the client, which is every one
\* the object-store operations return, has at most one of Data, StringData and
\* StreamData set, and none when its status is ERR.  A FileResponse returned by
\* a REST operation is the decoded body of the server's response: its
\* StreamData is never set, its Data and StringData are set as the body has
\* them, both if it has both; a REST call that returns an error returns no
\* FileResponse.
C20_ClientBuiltPayload ==
    /\ ClientBuilt
    /\ \A p \in Callers :
          /\ "StreamData" \notin payload[p]
          /\ (Finished(p) /\ result[p].kind # "envelope") => payload[p] = {}

C20_Witness ==
    /\ so.state = "done" /\ so.op = "GcsGetFileByIdAsString"
    /\ Populated(sret.resp) = {"StringData"}
    /\ sret.resp.StringData = <<255, 77>>

\* C21 (as the claim states it): callers running GetToken side by side each
\* send at most one request to the authorization server, and every one of
\* them that returns without an error returns a token that the server issued.
C21_Original ==
    \A p \in Callers :
        op[p] = "GetToken"
            => /\ authReqs[p] <= 1
               /\ (Finished(p) /\ result[p].kind # "error")
                     => (result[p].kind = "token" /\ result[p].tok \in 1..issued)

Uploading == so.op \in {"AwsUpload", "GcsUpload"}

\* C22: every upload stores under a fresh key.  The key is one-to-one in the
\* generated unique name, whatever the subdirectories and extensions; the
\* name of an upload is one that no earlier upload got, so two uploads never
\* return the same file id; and a step of an upload leaves every object
\* stored before it as it was.
C22_FreshKey ==
    /\ []((Uploading /\ so.i = 3)
             => \A s1, s2 \in Subdirs, u1, u2 \in UniqueNames, e1, e2 \in Extensions :
                   FileKey(s1, u1, e1) = FileKey(s2, u2, e2) => u1 = u2)
    /\ [](\A b \in Backends : \A k \in DOMAIN objects[b] : k <= uploads)
    /\ [][(~Uploading /\ Uploading') => (\A b \in Backends : \A k \in DOMAIN objects[b] : k < so'.id)]_vars
    /\ [][Uploading
            => \A b \in Backends : \A k \in DOMAIN objects[b] :
                  k \in DOMAIN objects'[b] /\ objects'[b][k].data = objects[b][k].data
                                           /\ objects'[b][k].mime = objects[b][k].mime]_vars

C22_Witness ==
    /\ Uploading /\ so.state = "done" /\ so.failed = "" /\ so.id = 2
    /\ sret.resp.FileID = 2 /\ so.data = <<255, 77>>
    /\ 1 \in DOMAIN objects[BackendOf(so.op)] /\ 2 \in DOMAIN objects[BackendOf(so.op)]
    /\ objects[BackendOf(so.op)][1].data = <<255, 77>>

\* C23 (as the claim states it): when GcsGetFileByIdAsStream succeeds, the
\* envelope carries an open reader, the client that owns it is still open and
\* the caller has been handed it; on its error paths, and in every other Gcs*
\* operation, a client that the operation opened is closed when it returns.
C23_Original ==
    (so.state = "done" /\ BackendOf(so.op) = "gcs")
        => IF so.op = "GcsGetFileByIdAsStream" /\ so.failed = ""
           THEN /\ "reader" \in Handles(sret.resp)
                /\ so.client = "open"
                /\ "client" \in Handles(sret.resp)
           ELSE so.client # "open"

\* C24 (as the claim states it): in a REST operation an HTTP attempt after
\* the first carries the token that the forced regeneration after the failed
\* attempt before it returned, so none is sent after a forced regeneration
\* that returned an error and no token.
C24_Original ==
    [][\A p \in Callers :
          (pc[p] = "loop" /\ pc'[p] = "http" /\ attempts[p] > 0) => regen[p] # NoneReturned]_vars

\* C25 (as the claim states it): whenever the cache holds an entry under the
\* token key, its value is a non-empty token that the authorization server
\* issued and it has an expiration instant (it is not non-expiring).
C25_Original ==
    tokenKey \in DOMAIN items
        => /\ items[tokenKey].Value \in 1..issued
           /\ items[tokenKey].Expiration > 0

\* C26: a REST operation called with maxRetry = n sends at most n HTTP requests
\* (none when n is negative) and at most twice as many requests to the
\* authorization server, whatever the two servers answer; and, every request
\* returning, the call returns.
C26_Terminates ==
    LET n == IF maxRetry > 0 THEN maxRetry ELSE 0
    IN /\ [](\A p \in Callers :
                op[p] \in RestOps => (Len(log[p]) <= n /\ authReqs[p] <= 2 * n))
       /\ \A p \in {"c1"} : (op[p] \in RestOps) ~> Finished(p)

C26_Witness ==
    /\ Finished("c1") /\ op["c1"] = "GetFileById" /\ maxRetry = 2
    /\ Len(log["c1"]) = 2 /\ authReqs["c1"] = 3
    /\ result["c1"] = Failure(ErrExhausted)

\* C28: with maxRetry set to 0 or below, a REST operation that passed its
\* argument checks returns 'exceeded maximum retry attempts' at its first
\* step: it has asked for no token and sent no HTTP request, and the step
\* leaves the token cache and the authorization server as they were.
C28_NoAttemptAllowed ==
    /\ [](\A p \in Callers :
             (op[p] \in RestOps /\ maxRetry <= 0)
                => /\ log[p] = << >> /\ authReqs[p] = 0 /\ forced[p] = 0
                   /\ pc[p] \in {"loop", "done"}
                   /\ Finished(p) => result[p] \in {Failure(ErrExhausted), Failure(ErrInvalid),
                                                    Failure("open")})
    /\ [][\A p \in Callers :
             (pc[p] = "loop" /\ pc'[p] # "loop" /\ maxRetry <= 0)
                => /\ pc'[p] = "done" /\ result'[p] = Failure(ErrExhausted)
                   /\ items' = items /\ issued' = issued]_vars

C28_Witness ==
    /\ Finished("c1") /\ op["c1"] = "Delete" /\ maxRetry = -1
    /\ result["c1"] = Failure(ErrExhausted)
    /\ tokenKey \in DOMAIN items /\ items[tokenKey].Value = 1

\* C27 (as the claim states it): when GenerateToken executions overlap, a
\* token in the cache is never overwritten by a token that the authorization
\* server issued before it (tokens are numbered in the order of their issue).
C27_Original ==
    [][\A p \in Callers :
          (/\ pc[p] = "store" /\ pc'[p] # "store"
           /\ aresp[p].token > 0
           /\ tokenKey \in DOMAIN items)
          => items'[tokenKey].Value >= items[tokenKey].Value]_vars

\* C29 (as the claim states it): a download that returns an ERR envelope
\* leaves the target path as it was before the call: a file that was there
\* is still there, and none is there that was not.
C29_Original ==
    (Downloads /\ so.failed # "") => (so.path \in disk <=> so.had)

\* C30: the sweep removes only entries that are expired at the moment it
\* removes them, never an entry without expiration or one whose expiration is
\* still to come, and it leaves the entries it keeps as they are; a Set that
\* comes between the janitor's reading of the clock and its taking of the lock
\* stores an entry that this sweep does not count as expired.
C30_SweepOnlyExpired ==
    /\ [][(jpc = "locked" /\ jpc' = "swept")
            => /\ \A k \in DOMAIN items \ DOMAIN items' :
                     items[k].Expiration > 0 /\ now > items[k].Expiration
               /\ \A k \in DOMAIN items' : k \in DOMAIN items /\ items'[k] = items[k]]_vars
    /\ [][\A t \in Threads :
             (jpc = "sweep" /\ thr[t].pc = "in" /\ thr'[t].pc = "out" /\ thr[t].op = "Set")
                => ~IsExpired(items'[thr[t].key], jnow)]_vars

C30_Witness ==
    /\ jpc = "swept" /\ now > jnow
    /\ "k1" \in DOMAIN items /\ items["k1"].Expiration > now
    /\ jsnap = items

\* every key but k is stored, or not, in m2 as it is in m1, with the same entry
OthersKept(k, m1, m2) ==
    \A x \in Keys \ {k} :
        /\ x \in DOMAIN m1 <=> x \in DOMAIN m2
        /\ x \in DOMAIN m1 => m2[x] = m1[x]

\* C31: Delete(k) removes k's entry whether it was live, expired or absent and
\* touches no other key, and until the next Set of k, Get and Has report k as
\* not found; Set(k, v, ttl) on a key, stored or not, leaves the entry (v, now +
\* ttl), or (v, no expiration) when ttl is 0, and touches no other key, so that
\* a later Get or Has of k answers by the last Set alone: found with its value
\* when that ttl is 0 or the time is not past its instant, not found after it.
C31_DeleteAndOverwrite ==
    /\ [][\A k \in UserKeys :
             /\ (ev'.op = "Delete" /\ ev'.key = k)
                   => (k \notin DOMAIN items' /\ OthersKept(k, items, items'))
             /\ (setInfo'[k].set /\ setInfo'[k] # setInfo[k])
                   => (k \in DOMAIN items' /\ OthersKept(k, items, items'))]_vars
    /\ [](\A k \in UserKeys :
             LET s == setInfo[k]
                 read == ev.key = k /\ ev.op \in {"Get", "Has"}
             IN /\ ~s.set => (k \notin DOMAIN items /\ (read => ~ev.found))
                /\ (s.set /\ k \in DOMAIN items) =>
                      items[k] = [Value |-> s.v, Expiration |-> IF s.ttl > 0 THEN s.t + s.ttl ELSE 0]
                /\ (s.set /\ read) =>
                      /\ ev.found <=> (s.ttl = 0 \/ now <= s.t + s.ttl)
                      /\ (ev.found /\ ev.op = "Get") => ev.val = s.v)

\* Delete has just removed k1's stored entry, k2's expired entry is still
\* stored as its last Set left it
C31_Witness ==
    /\ ev.op = "Delete" /\ ev.key = "k1" /\ ev.found
    /\ "k1" \notin DOMAIN items /\ ~setInfo["k1"].set
    /\ Past(items, "k2", now) /\ items["k2"].Value = setInfo["k2"].v

\* s holds t as a run of consecutive letters
Contains(s, t) == \E i \in 0..(Len(s) - Len(t)) : SubSeq(s, i + 1, i + Len(t)) = t

\* C32 (as the claim states it): an upload that succeeds returns in
\* Info.FileName the base filename without its extension and the dot before
\* it, and the whole base filename when it has no extension, and in
\* Info.FileExt the extension without the dot; the key holds the extension
\* and does not hold the original filename.
C32_Original ==
    (Uploading /\ sret.kind = "response" /\ sret.resp.Status = StatusSuccess) =>
        LET orig == Base(so.name)
            info == sret.resp.Info
            dotted == \E i \in 1..Len(orig) : orig[i] = "."
        IN /\ dotted => /\ info.FileName \o <<".">> \o info.FileExt = orig
                         /\ \A i \in 1..Len(info.FileExt) : info.FileExt[i] # "."
           /\ ~dotted => (info.FileName = orig /\ info.FileExt = << >>)
           /\ Contains(info.FileID, info.FileExt)
           /\ ~Contains(info.FileID, orig)

Linking == so.op \in {"AwsGetTemporaryPublicLink", "GcsGetTemporaryPublicLink"}

\* C33 (as the claim states it): a temporary link that returns OK for a call
\* without expiry has ExpiredAt exactly the default validity after the time of
\* the call and a URL signed up to that instant; for a call with expiry E it
\* has ExpiredAt = E; and its ExpiredAt is always later than the time of the
\* call.
C33_Original ==
    (Linking /\ sret.kind = "response" /\ sret.resp.Status = StatusSuccess) =>
        /\ so.given = 0 => /\ sret.resp.ExpiredAt = so.at + DefaultLinkExpiry
                            /\ so.signed = sret.resp.ExpiredAt
        /\ so.given # 0 => sret.resp.ExpiredAt = so.given
        /\ sret.resp.ExpiredAt > so.at

====
